---- MODULE Spec2Model ----
(***************************************************************************)
(* A model of commoncode/command.py: execute2, get_env, close,            *)
(* load_shared_library, pushd and update_path_var.                         *)
(*                                                                         *)
(* Spec: a caller (one thread) invokes one operation at a time; every      *)
(* operation runs step by step, in the order of its statements, to "done", *)
(* and the caller then takes the result and is free to call again.         *)
(* SpecRace: two threads each run one pushd scope, unserialized.           *)
(*                                                                         *)
(* Text (paths, PATH-like values) is a sequence of one-character strings,  *)
(* so that split and join are computed and not assumed.                    *)
(***************************************************************************)
EXTENDS Integers, Sequences, FiniteSets, TLC

\* ------------------------------------------------------------------ bounds
\* longest existing PATH-like value, and longest new path, that are enumerated
MaxPathLen == 3
MaxNewLen == 2

\* ------------------------------------------------------------------- text
Chars == {"a", "b", ":", ";"}

Strings(n) == UNION {[1..k -> Chars] : k \in 0..n}

\* Python's None
NoneVal == <<"None">>

\* Python truth value of a str-or-None: None and '' are false
Falsy(x) == x = NoneVal \/ x = <<>>

\* the directories of the file system; it does not change during a call
RootDir == <<"a">>
LibDir == <<"b">>
MissingDir == <<"a", "b">>
ExistingDirs == {RootDir, LibDir}

\* os.pathsep: ':' on POSIX, ';' on Windows
PathSep(posix) == IF posix THEN ":" ELSE ";"

\* s.split(sep): every occurrence of sep cuts; ''.split(sep) is ['']
RECURSIVE Split(_, _)
Split(s, sep) ==
    IF \A i \in 1..Len(s) : s[i] # sep
      THEN <<s>>
      ELSE LET i == CHOOSE j \in 1..Len(s) :
                        s[j] = sep /\ \A k \in 1..(j - 1) : s[k] # sep
           IN  <<SubSeq(s, 1, i - 1)>> \o Split(SubSeq(s, i + 1, Len(s)), sep)

\* sep.join(elems)
RECURSIVE Join(_, _)
Join(elems, sep) ==
    IF Len(elems) = 0 THEN <<>>
    ELSE IF Len(elems) = 1 THEN elems[1]
    ELSE elems[1] \o <<sep>> \o Join(Tail(elems), sep)

\* x in list
InList(x, elems) == \E i \in 1..Len(elems) : elems[i] = x

\* update_path_var without the membership test: the new path is always added
update_path_var_always_prepend(existing_path_var, new_path, posix) ==
    IF Falsy(new_path) THEN existing_path_var
    ELSE LET existing == IF Falsy(existing_path_var) THEN <<>> ELSE existing_path_var
         IN  Join(<<new_path>> \o Split(existing, PathSep(posix)), PathSep(posix))

\* update_path_var adding the new path at the end instead of the front
update_path_var_append(existing_path_var, new_path, posix) ==
    IF Falsy(new_path) THEN existing_path_var
    ELSE LET existing == IF Falsy(existing_path_var) THEN <<>> ELSE existing_path_var
             path_elements == Split(existing, PathSep(posix))
         IN  IF ~InList(new_path, path_elements)
               THEN Join(path_elements \o <<new_path>>, PathSep(posix))
               ELSE existing

\* update_path_var(existing_path_var, new_path) on a platform
update_path_var(existing_path_var, new_path, posix) ==
    IF Falsy(new_path) THEN existing_path_var
    ELSE LET existing == IF Falsy(existing_path_var) THEN <<>> ELSE existing_path_var
             path_elements == Split(existing, PathSep(posix))
         IN  IF Len(path_elements) = 0 THEN new_path
             ELSE IF ~InList(new_path, path_elements)
               THEN Join(<<new_path>> \o path_elements, PathSep(posix))
               ELSE existing

\* ------------------------------------------------------------ file system
\* files that exist: an executable, a shared library; MissingFile does not
CmdLoc == <<"a", "a">>
DllLoc == <<"b", "b">>
MissingFile == <<"b", "a">>
Executables == {CmdLoc}
Libraries == {DllLoc}

\* os.path.exists
Exists(p) == p \in ExistingDirs \cup Executables \cup Libraries

\* ------------------------------------------------------------- child output
\* what a child process may write to its stdout and to its stderr
StdoutBytes == {<<>>, <<"X">>, <<" ", "X", " ">>, <<"X", "~">>}
StderrBytes == {<<>>, <<"Y">>}
\* exit codes of a child that runs the command
ExitCodes == {0, 7, 100}
\* exit code of the Windows shell that does not find the command
ShellNotFound == {1}

\* rc = 100, the value rc holds until proc.returncode is read
RcDefault == 100
\* Popen.returncode of a child ended by SIGKILL: -signal.SIGKILL
KilledRc == -9

Whitespace == {" "}

\* bytes.strip(): whitespace removed at both ends
RECURSIVE LStrip(_)
LStrip(b) == IF Len(b) > 0 /\ b[1] \in Whitespace THEN LStrip(Tail(b)) ELSE b
RECURSIVE RStrip(_)
RStrip(b) ==
    IF Len(b) > 0 /\ b[Len(b)] \in Whitespace THEN RStrip(SubSeq(b, 1, Len(b) - 1)) ELSE b
Strip(b) == RStrip(LStrip(b))

\* text.toascii: "~" stands for a non-ASCII byte, which is replaced
toascii(b) == [i \in 1..Len(b) |-> IF b[i] = "~" THEN "?" ELSE b[i]]

\* the locations of the two backing files in the temporary directory
SopLoc == <<"stdout">>
SepLoc == <<"stderr">>

\* ------------------------------------------------------------------ state
VARIABLES
    on_posix,       \* commoncode.system.on_posix (on_windows is its negation)
    cwd,            \* the process working directory (os.getcwd())
    op,             \* the operation the caller is in, or "idle"
    pc,             \* the position in that operation
    inp,            \* the arguments of the call
    ret,            \* the value returned, NoneVal until then
    exc,            \* the exception being raised, "none" when there is none
    entry_cwd,      \* os.getcwd() when the operation was called
    original_cwd,   \* pushd's original_cwd, NoFrame outside a pushd scope
    work,           \* how the work wrapped by the directory scope went
    tmp_dir,        \* whether get_temp_dir has allocated a directory
    files,          \* the two backing files: "none", "open", "closed"
    sout,           \* content of the stdout backing file
    serr,           \* content of the stderr backing file
    proc,           \* the Popen handle
    child,          \* the OS process: "none", "running", "zombie", "reaped"
    child_code,     \* the exit status of a child that has ended
    rc,             \* execute2's rc
    n_chdir,        \* os.chdir calls of the operation
    n_spawn,        \* processes spawned by the operation
    n_close,        \* close(proc) calls of the operation
    close_exc,      \* the exception pending when close was called
    stray,          \* os.kill reached a pid that is no longer the child's
    environ,        \* os.environ, as far as the two library variables go
    exc_args,       \* the args of the exception being raised
    n_load,         \* ctypes.CDLL calls of the operation
    trace,          \* what the operation has done so far, in order
    thr,            \* the pushd scopes of concurrent threads
    race_trace      \* the steps of those threads, in order

callv == <<op, pc, inp, ret, exc, entry_cwd, work>>
dirv == <<cwd, original_cwd, n_chdir>>
filev == <<tmp_dir, files, sout, serr>>
procv == <<proc, child, child_code, rc, n_spawn, n_close, close_exc, stray>>
hostv == <<on_posix, environ>>
loadv == <<exc_args, n_load>>
racev == <<thr, race_trace>>
vars == <<hostv, callv, dirv, filev, procv, loadv, trace, racev>>

NoFrame == <<"-">>

\* the names of the two library search variables
LD_LIBRARY_PATH == "LD_LIBRARY_PATH"
DYLD_LIBRARY_PATH == "DYLD_LIBRARY_PATH"

\* a dict is a function from its keys; {} is the function of no key
EmptyDict == [k \in {} |-> <<>>]

\* the values os.environ may hold for the two variables when the process
\* starts; the operations never change them
EnvChoices ==
    { EmptyDict,
      [k \in {LD_LIBRARY_PATH} |-> <<"b">>],
      [k \in {LD_LIBRARY_PATH, DYLD_LIBRARY_PATH} |->
          IF k = LD_LIBRARY_PATH THEN <<"a", ":", "b">> ELSE <<"a">>] }

\* the threads that may use pushd without serializing
Threads == {1, 2}
NoThreads == [t \in Threads |-> [pc |-> "idle", path |-> NoneVal, original_cwd |-> NoFrame]]

NoInput == [cmd_loc |-> NoneVal, lib_dir |-> NoneVal, base_vars |-> EmptyDict,
            to_files |-> FALSE, dll_path |-> NoneVal,
            existing_path_var |-> NoneVal, new_path |-> NoneVal]

PipeNames == {"stdin", "stdout", "stderr"}
\* a pipe attribute: "none" (None), "open", "bad" (close() raises IOError),
\* "closed"
NoPipes == [p \in PipeNames |-> "none"]
\* returncode is <<>> for None and <<c>> for the integer c
NoProc == [present |-> FALSE, pipes |-> NoPipes, returncode |-> <<>>]

Init ==
    /\ on_posix \in BOOLEAN
    /\ cwd \in ExistingDirs
    /\ op = "idle"
    /\ pc = "idle"
    /\ inp = NoInput
    /\ ret = NoneVal
    /\ exc = "none"
    /\ entry_cwd = cwd
    /\ original_cwd = NoFrame
    /\ work = "-"
    /\ tmp_dir = FALSE
    /\ files = "none"
    /\ sout = <<>>
    /\ serr = <<>>
    /\ proc = NoProc
    /\ child = "none"
    /\ child_code = 0
    /\ rc = 0
    /\ n_chdir = 0
    /\ n_spawn = 0
    /\ n_close = 0
    /\ close_exc = "none"
    /\ stray = FALSE
    /\ environ \in EnvChoices
    /\ exc_args = <<>>
    /\ n_load = 0
    /\ trace = <<>>
    /\ thr = NoThreads
    /\ race_trace = <<>>

\* ------------------------------------------------------- update_path_var
UpdatePathVar ==
    /\ op = "idle"
    /\ \E p \in Strings(MaxPathLen) \cup {NoneVal}, s \in Strings(MaxNewLen) \cup {NoneVal} :
          /\ inp' = [NoInput EXCEPT !.existing_path_var = p, !.new_path = s]
          /\ ret' = update_path_var(p, s, on_posix)
    /\ op' = "update_path_var"
    /\ pc' = "done"
    /\ UNCHANGED <<hostv, loadv, racev, exc, entry_cwd, work, dirv, filev, procv>>
    /\ UNCHANGED trace

\* ---------------------------------------------------------------- get_env
\* os.environ.get(key)
EnvironGet(env, key) == IF key \in DOMAIN env THEN env[key] ELSE NoneVal

\* d.update({key: value})
DictUpdate(d, key, value) ==
    [k \in DOMAIN d \cup {key} |-> IF k = key THEN value ELSE d[k]]

\* text.as_unicode of a str: the str itself
as_unicode(x) == x

\* the dict comprehension that normalizes the keys and the values
Normalized(d) ==
    [k \in {as_unicode(j) : j \in DOMAIN d} |->
        as_unicode(d[CHOOSE j \in DOMAIN d : as_unicode(j) = k])]

\* get_env that forgets the base variables
get_env_without_base(base_vars, lib_dir, posix, env) ==
    IF ~Falsy(lib_dir) /\ posix
      THEN DictUpdate(
             DictUpdate(EmptyDict, LD_LIBRARY_PATH,
                        update_path_var(EnvironGet(env, LD_LIBRARY_PATH), lib_dir, posix)),
             DYLD_LIBRARY_PATH,
             update_path_var(EnvironGet(env, DYLD_LIBRARY_PATH), lib_dir, posix))
      ELSE EmptyDict

\* get_env that extends the value the base map has, when it has one
get_env_from_base(base_vars, lib_dir, posix, env) ==
    IF ~Falsy(lib_dir) /\ posix
      THEN LET old(k) == IF k \in DOMAIN base_vars THEN base_vars[k]
                         ELSE EnvironGet(env, k)
           IN DictUpdate(
                DictUpdate(base_vars, LD_LIBRARY_PATH,
                           update_path_var(old(LD_LIBRARY_PATH), lib_dir, posix)),
                DYLD_LIBRARY_PATH,
                update_path_var(old(DYLD_LIBRARY_PATH), lib_dir, posix))
      ELSE base_vars

\* get_env(base_vars, lib_dir); a base_vars of None is the empty dict, which
\* `if base_vars:` treats alike
get_env(base_vars, lib_dir, posix, env) ==
    LET env_vars == IF DOMAIN base_vars # {} THEN base_vars ELSE EmptyDict
        with_ld == DictUpdate(env_vars, LD_LIBRARY_PATH,
                     update_path_var(EnvironGet(env, LD_LIBRARY_PATH), lib_dir, posix))
        with_dyld == DictUpdate(with_ld, DYLD_LIBRARY_PATH,
                       update_path_var(EnvironGet(env, DYLD_LIBRARY_PATH), lib_dir, posix))
    IN  Normalized(IF ~Falsy(lib_dir) /\ posix THEN with_dyld ELSE env_vars)

\* the base maps that are enumerated: any choice of an unrelated key and of
\* the two library variables, each with one of two values
BaseKeys == {"K", LD_LIBRARY_PATH, DYLD_LIBRARY_PATH}
BaseMaps == UNION {[ks -> {<<"a">>, <<"b", ":", "a">>}] : ks \in SUBSET BaseKeys}

GetEnv ==
    /\ op = "idle"
    /\ \E b \in BaseMaps, d \in {NoneVal, <<>>, RootDir, LibDir} :
          /\ inp' = [NoInput EXCEPT !.base_vars = b, !.lib_dir = d]
          /\ ret' = get_env(b, d, on_posix, environ)
    /\ op' = "get_env"
    /\ pc' = "done"
    /\ UNCHANGED <<hostv, loadv, racev, exc, entry_cwd, work, dirv, filev, procv>>
    /\ UNCHANGED trace

\* ------------------------------------------------------------------ pushd
\* a pushd that never switches
PushdTargetStay(path) == cwd

\* the directory pushd switches to: path, or original_cwd when path is empty
PushdTarget(path) == IF Falsy(path) THEN cwd ELSE path

\* a finally clause that stays where the scope left the process
RestoreDirStay == cwd

\* the directory the finally clause of pushd switches to
RestoreDir == original_cwd

\* pushd up to its yield: os.getcwd(), then os.chdir(path), which raises for a
\* directory that does not exist
PushdEnter(path, okpc, failpc) ==
    /\ original_cwd' = cwd
    /\ n_chdir' = n_chdir + 1
    /\ IF PushdTarget(path) \in ExistingDirs
         THEN /\ cwd' = PushdTarget(path)
              /\ exc' = exc
              /\ work' = work
              /\ pc' = okpc
         ELSE /\ cwd' = cwd
              /\ exc' = "FileNotFoundError"
              /\ work' = "chdir_failed"
              /\ pc' = failpc

\* pushd's finally clause
PushdExit(nextpc) ==
    /\ cwd' = RestoreDir
    /\ original_cwd' = NoFrame
    /\ n_chdir' = n_chdir + 1
    /\ pc' = nextpc

\* with pushd(path): <body>, called by the caller itself
PushdCall ==
    /\ op = "idle"
    /\ \E d \in {NoneVal, <<>>, RootDir, LibDir, MissingDir} :
          inp' = [NoInput EXCEPT !.lib_dir = d]
    /\ op' = "pushd"
    /\ pc' = "pd_enter"
    /\ entry_cwd' = cwd
    /\ UNCHANGED <<hostv, loadv, racev, ret, exc, work, dirv, filev, procv>>
    /\ UNCHANGED trace

PdEnter ==
    /\ op = "pushd" /\ pc = "pd_enter"
    /\ PushdEnter(inp.lib_dir, "pd_body", "pd_exit")
    /\ UNCHANGED <<hostv, loadv, racev, op, inp, ret, entry_cwd, filev, procv>>
    /\ UNCHANGED trace

\* the wrapped block: it may change the directory itself, and it ends
\* normally, by an early return or by raising
PdBody ==
    /\ op = "pushd" /\ pc = "pd_body"
    /\ \E d \in ExistingDirs, o \in {"normal", "return", "raise"} :
          /\ cwd' = d
          /\ work' = o
          /\ exc' = IF o = "raise" THEN "BodyError" ELSE "none"
    /\ pc' = "pd_exit"
    /\ UNCHANGED <<hostv, loadv, racev, op, inp, ret, entry_cwd, original_cwd, n_chdir, filev, procv>>
    /\ UNCHANGED trace

PdExit ==
    /\ op = "pushd" /\ pc = "pd_exit"
    /\ PushdExit("done")
    /\ UNCHANGED <<hostv, loadv, racev, op, inp, ret, exc, entry_cwd, work, filev, procv>>
    /\ UNCHANGED trace

\* ------------------------------------------------------------- the child
\* the exit codes a spawned child may end with: the command's, or, under the
\* Windows shell (shell=True), the shell's when it does not find the command
ChildCodes == IF inp.cmd_loc \in Executables \/ op # "execute2"
                THEN ExitCodes ELSE ShellNotFound

\* the child ends by itself, having written its output; it stays a zombie
\* until it is waited for
ChildExit ==
    /\ child = "running"
    /\ child' = "zombie"
    /\ \E c \in ChildCodes : child_code' = c
    /\ IF op = "execute2"
         THEN \E o \in StdoutBytes, e \in StderrBytes : sout' = o /\ serr' = e
         ELSE UNCHANGED <<sout, serr>>
    /\ UNCHANGED <<hostv, loadv, racev, callv, dirv, tmp_dir, files, proc, rc, n_spawn, n_close,
                   close_exc, stray>>
    /\ UNCHANGED trace

\* --------------------------------------------------------------- execute2
Execute2Call ==
    /\ op = "idle"
    /\ \E c \in {NoneVal, <<>>, CmdLoc, MissingFile},
          d \in {NoneVal, LibDir, MissingDir}, f \in BOOLEAN :
          inp' = [NoInput EXCEPT !.cmd_loc = c, !.lib_dir = d, !.to_files = f]
    /\ op' = "execute2"
    /\ pc' = "e2_assert"
    /\ entry_cwd' = cwd
    /\ UNCHANGED <<hostv, loadv, racev, ret, exc, work, dirv, filev, procv>>
    /\ UNCHANGED trace

\* an assertion that only rejects None, and lets '' through
AssertNotNone(cmd_loc) == cmd_loc # NoneVal

\* assert cmd_loc
AssertPasses(cmd_loc) == ~Falsy(cmd_loc)

E2Assert ==
    /\ op = "execute2" /\ pc = "e2_assert"
    /\ IF AssertPasses(inp.cmd_loc)
         THEN pc' = "e2_setup" /\ exc' = exc
         ELSE pc' = "done" /\ exc' = "AssertionError"
    /\ UNCHANGED <<hostv, loadv, racev, op, inp, ret, entry_cwd, work, dirv, filev, procv>>
    /\ UNCHANGED trace

\* get_env, get_temp_dir, the two locations, proc = None, rc = 100
E2Setup ==
    /\ op = "execute2" /\ pc = "e2_setup"
    /\ tmp_dir' = TRUE
    /\ proc' = NoProc
    /\ rc' = RcDefault
    /\ pc' = "e2_open"
    /\ UNCHANGED <<hostv, loadv, racev, op, inp, ret, exc, entry_cwd, work, dirv, files, sout, serr,
                   child, child_code, n_spawn, n_close, close_exc, stray>>
    /\ UNCHANGED trace

\* with io.open(sop) as stdout, io.open(sep) as stderr
E2Open ==
    /\ op = "execute2" /\ pc = "e2_open"
    /\ files' = "open"
    /\ sout' = <<>>
    /\ serr' = <<>>
    /\ pc' = "e2_pushd"
    /\ UNCHANGED <<hostv, loadv, racev, op, inp, ret, exc, entry_cwd, work, dirv, tmp_dir, procv>>
    /\ UNCHANGED trace

\* with pushd(lib_dir)
E2Pushd ==
    /\ op = "execute2" /\ pc = "e2_pushd"
    /\ PushdEnter(inp.lib_dir, "e2_spawn", "e2_popd")
    /\ UNCHANGED <<hostv, loadv, racev, op, inp, ret, entry_cwd, filev, procv>>
    /\ trace' = Append(trace, "pushd_enter")

\* whether subprocess.Popen obtains a process: with shell=True (on Windows)
\* the shell is the process; otherwise the executable has to exist
SpawnSucceeds(cmd_loc, posix) == ~posix \/ cmd_loc \in Executables

\* proc = subprocess.Popen(full_cmd, **popen_args): stdin is not redirected
\* and stdout, stderr go to the files, so the handle has no pipe
E2Spawn ==
    /\ op = "execute2" /\ pc = "e2_spawn"
    /\ IF SpawnSucceeds(inp.cmd_loc, on_posix)
         THEN /\ proc' = [present |-> TRUE, pipes |-> NoPipes, returncode |-> <<>>]
              /\ child' = "running"
              /\ n_spawn' = n_spawn + 1
              /\ pc' = "e2_comm"
              /\ UNCHANGED <<exc, work>>
         ELSE /\ exc' = "SpawnError"
              /\ work' = "spawn_failed"
              /\ pc' = "e2_popd"
              /\ UNCHANGED <<proc, child, n_spawn>>
    /\ UNCHANGED <<hostv, loadv, racev, op, inp, ret, entry_cwd, dirv, filev, child_code, rc,
                   n_close, close_exc, stray>>
    /\ trace' = Append(trace, IF SpawnSucceeds(inp.cmd_loc, on_posix) THEN "spawn" ELSE "spawn_raised")

\* proc.communicate() returns once the child has ended, and reaps it
E2Communicate ==
    /\ op = "execute2" /\ pc = "e2_comm"
    /\ child = "zombie"
    /\ child' = "reaped"
    /\ proc' = [proc EXCEPT !.returncode = <<child_code>>]
    /\ work' = "waited"
    /\ pc' = "e2_rc"
    /\ UNCHANGED <<hostv, loadv, racev, op, inp, ret, exc, entry_cwd, dirv, filev, child_code, rc,
                   n_spawn, n_close, close_exc, stray>>
    /\ trace' = Append(trace, "wait")

\* proc.communicate() is interrupted while it blocks on the running child
E2CommunicateRaises ==
    /\ op = "execute2" /\ pc = "e2_comm"
    /\ child = "running"
    /\ exc' = "InterruptedWait"
    /\ work' = "wait_raised"
    /\ pc' = "e2_popd"
    /\ UNCHANGED <<hostv, loadv, racev, op, inp, ret, entry_cwd, dirv, filev, procv>>
    /\ trace' = Append(trace, "wait_raised")

\* rc left at its default instead of reading proc.returncode
ReturnCodeIgnored(p) == RcDefault

\* the value of: proc.returncode if proc else 0
ReturnCodeOf(p) == IF p.present THEN p.returncode[1] ELSE 0

E2Rc ==
    /\ op = "execute2" /\ pc = "e2_rc"
    /\ rc' = ReturnCodeOf(proc)
    /\ pc' = "e2_popd"
    /\ UNCHANGED <<hostv, loadv, racev, op, inp, ret, exc, entry_cwd, work, dirv, filev, proc, child,
                   child_code, n_spawn, n_close, close_exc, stray>>
    /\ UNCHANGED trace

\* leaving with pushd(lib_dir), normally or by an exception
E2Popd ==
    /\ op = "execute2" /\ pc = "e2_popd"
    /\ PushdExit("e2_fclose")
    /\ UNCHANGED <<hostv, loadv, racev, op, inp, ret, exc, entry_cwd, work, filev, procv>>
    /\ trace' = Append(trace, "pushd_exit")

\* leaving with io.open(...): both backing files are closed
E2FilesClose ==
    /\ op = "execute2" /\ pc = "e2_fclose"
    /\ files' = "closed"
    /\ pc' = "e2_finally"
    /\ UNCHANGED <<hostv, loadv, racev, op, inp, ret, exc, entry_cwd, work, dirv, tmp_dir, sout, serr,
                   procv>>
    /\ trace' = Append(trace, "files_closed")

\* cleanup that is skipped when there is no handle: if proc: close(proc)
E2FinallyOnlyWithProc ==
    /\ op = "execute2" /\ pc = "e2_finally"
    /\ n_close' = IF proc.present THEN n_close + 1 ELSE n_close
    /\ close_exc' = exc
    /\ pc' = IF proc.present THEN "cl_check" ELSE "e2_after"
    /\ UNCHANGED <<hostv, loadv, racev, op, inp, ret, exc, entry_cwd, work, dirv, filev, proc, child,
                   child_code, rc, n_spawn, stray>>
    /\ trace' = IF proc.present THEN Append(trace, "close") ELSE trace

\* finally: close(proc)
E2Finally ==
    /\ op = "execute2" /\ pc = "e2_finally"
    /\ n_close' = n_close + 1
    /\ close_exc' = exc
    /\ pc' = "cl_check"
    /\ UNCHANGED <<hostv, loadv, racev, op, inp, ret, exc, entry_cwd, work, dirv, filev, proc, child,
                   child_code, rc, n_spawn, stray>>
    /\ trace' = Append(trace, "close")

\* open(loc, 'rb').read().strip(), then text.toascii
Payload(content) == toascii(Strip(content))

\* the end of the finally clause: the pending exception goes on, or the
\* result is built and returned
E2After ==
    /\ op = "execute2" /\ pc = "e2_after"
    /\ IF exc # "none"
         THEN ret' = ret
         ELSE ret' = IF inp.to_files
                       THEN <<rc, SopLoc, SepLoc>>
                       ELSE <<rc, Payload(sout), Payload(serr)>>
    /\ pc' = "done"
    /\ UNCHANGED <<hostv, loadv, racev, op, inp, exc, entry_cwd, work, dirv, filev, procv>>
    /\ trace' = IF exc = "none" /\ ~inp.to_files THEN Append(trace, "read") ELSE trace

\* ------------------------------------------------------------------ close
\* close(proc) called by the caller itself, on a handle of its own
CloseCall ==
    /\ op = "idle"
    /\ \/ /\ proc' = NoProc
          /\ UNCHANGED <<child, child_code>>
       \/ \E pp \in [PipeNames -> {"none", "open", "bad"}] :
             \/ /\ proc' = [present |-> TRUE, pipes |-> pp, returncode |-> <<>>]
                /\ child' = "running"
                /\ UNCHANGED child_code
             \/ \E c \in ExitCodes :
                   /\ proc' = [present |-> TRUE, pipes |-> pp, returncode |-> <<>>]
                   /\ child' = "zombie"
                   /\ child_code' = c
             \/ \E c \in ExitCodes :
                   /\ proc' = [present |-> TRUE, pipes |-> pp, returncode |-> <<c>>]
                   /\ child' = "reaped"
                   /\ child_code' = c
    /\ op' = "close"
    /\ pc' = "cl_check"
    /\ n_close' = 1
    /\ close_exc' = "none"
    /\ entry_cwd' = cwd
    /\ UNCHANGED <<hostv, loadv, racev, inp, ret, exc, work, dirv, filev, rc, n_spawn, stray>>
    /\ UNCHANGED trace

\* if not proc: return
ClCheck ==
    /\ pc = "cl_check"
    /\ pc' = IF proc.present THEN "cl_stdin" ELSE "cl_ret"
    /\ UNCHANGED <<hostv, loadv, racev, op, inp, ret, exc, entry_cwd, work, dirv, filev, procv>>
    /\ UNCHANGED trace

\* close_pipe(p): nothing for None; p.close(), whose IOError is passed over
ClosePipe(state) == IF state = "none" THEN "none" ELSE "closed"

ClPipe(name, at, nextpc) ==
    /\ pc = at
    /\ proc' = [proc EXCEPT !.pipes[name] = ClosePipe(proc.pipes[name])]
    /\ pc' = nextpc
    /\ UNCHANGED <<hostv, loadv, racev, op, inp, ret, exc, entry_cwd, work, dirv, filev, child,
                   child_code, rc, n_spawn, n_close, close_exc, stray>>
    /\ trace' = Append(trace, name)

ClStdin == ClPipe("stdin", "cl_stdin", "cl_stdout")
ClStdout == ClPipe("stdout", "cl_stdout", "cl_stderr")
ClStderr == ClPipe("stderr", "cl_stderr", "cl_kill")

\* os.kill(proc.pid, signal.SIGKILL) inside try/except: the signal ends a
\* running child
ClKill ==
    /\ pc = "cl_kill"
    /\ on_posix
    /\ child \in {"running", "zombie"}
    /\ IF child = "running"
         THEN child' = "zombie" /\ child_code' = KilledRc
         ELSE UNCHANGED <<child, child_code>>
    /\ pc' = "cl_wait"
    /\ UNCHANGED <<hostv, loadv, racev, op, inp, ret, exc, entry_cwd, work, dirv, filev, proc, rc,
                   n_spawn, n_close, close_exc, stray>>
    /\ trace' = Append(trace, "kill")

\* a close whose wait is skipped when os.kill has raised
ClKillFailsReturns ==
    /\ pc = "cl_kill"
    /\ ~on_posix \/ child \in {"running", "reaped"}
    /\ pc' = "cl_ret"
    /\ UNCHANGED <<hostv, loadv, racev, op, inp, ret, exc, entry_cwd, work, dirv, filev, procv>>
    /\ trace' = Append(trace, "kill")

\* os.kill raises and the error is passed over: signal.SIGKILL does not exist
\* (Windows), the signal is not permitted, or the pid is no process
ClKillFails ==
    /\ pc = "cl_kill"
    /\ ~on_posix \/ child \in {"running", "reaped"}
    /\ pc' = "cl_wait"
    /\ UNCHANGED <<hostv, loadv, racev, op, inp, ret, exc, entry_cwd, work, dirv, filev, procv>>
    /\ trace' = Append(trace, "kill")

\* os.kill on the pid of a child that was reaped already: the pid may belong
\* to another process by now
ClKillStray ==
    /\ pc = "cl_kill"
    /\ on_posix
    /\ child = "reaped"
    /\ stray' = TRUE
    /\ pc' = "cl_wait"
    /\ UNCHANGED <<hostv, loadv, racev, op, inp, ret, exc, entry_cwd, work, dirv, filev, proc, child,
                   child_code, rc, n_spawn, n_close, close_exc>>
    /\ trace' = Append(trace, "kill")

\* proc.wait(): returns at once when returncode is set, else blocks until
\* the child has ended, and reaps it
ClWait ==
    /\ pc = "cl_wait"
    /\ \/ /\ proc.returncode # <<>>
          /\ UNCHANGED <<proc, child>>
       \/ /\ proc.returncode = <<>>
          /\ child = "zombie"
          /\ child' = "reaped"
          /\ proc' = [proc EXCEPT !.returncode = <<child_code>>]
    /\ pc' = "cl_ret"
    /\ UNCHANGED <<hostv, loadv, racev, op, inp, ret, exc, entry_cwd, work, dirv, filev, child_code,
                   rc, n_spawn, n_close, close_exc, stray>>
    /\ trace' = Append(trace, "reap")

\* proc.wait() is interrupted while it blocks on a child that still runs;
\* nothing in close catches it
ClWaitRaises ==
    /\ pc = "cl_wait"
    /\ proc.returncode = <<>>
    /\ child = "running"
    /\ exc' = "InterruptedReap"
    /\ pc' = "cl_raised"
    /\ UNCHANGED <<hostv, loadv, racev, op, inp, ret, entry_cwd, work, dirv, filev, procv>>
    /\ trace' = Append(trace, "reap")

\* close returns to its caller
ClRet ==
    /\ pc = "cl_ret"
    /\ pc' = IF op = "execute2" THEN "e2_after" ELSE "done"
    /\ UNCHANGED <<hostv, loadv, racev, op, inp, ret, exc, entry_cwd, work, dirv, filev, procv>>
    /\ UNCHANGED trace

\* the exception of close leaves its caller too
ClRaised ==
    /\ pc = "cl_raised"
    /\ pc' = "done"
    /\ UNCHANGED <<hostv, loadv, racev, op, inp, ret, exc, entry_cwd, work, dirv, filev, procv>>
    /\ UNCHANGED trace

\* ---------------------------------------------------- load_shared_library
LoadCall ==
    /\ op = "idle"
    /\ \E p \in {NoneVal, <<>>, DllLoc, MissingFile}, d \in {NoneVal, LibDir, MissingDir} :
          inp' = [NoInput EXCEPT !.dll_path = p, !.lib_dir = d]
    /\ op' = "load_shared_library"
    /\ pc' = "ls_check_dll"
    /\ entry_cwd' = cwd
    /\ UNCHANGED <<hostv, loadv, racev, ret, exc, work, dirv, filev, procv>>
    /\ UNCHANGED trace

\* if not dll_path or not path.exists(dll_path): raise ImportError
LsCheckDll ==
    /\ op = "load_shared_library" /\ pc = "ls_check_dll"
    /\ IF Falsy(inp.dll_path) \/ ~Exists(inp.dll_path)
         THEN pc' = "done" /\ exc' = "ImportError"
         ELSE pc' = "ls_check_dir" /\ exc' = exc
    /\ UNCHANGED <<hostv, loadv, racev, op, inp, ret, entry_cwd, work, dirv, filev, procv>>
    /\ UNCHANGED trace

\* a loader that does not check the library directory
LsCheckDirSkipped ==
    /\ op = "load_shared_library" /\ pc = "ls_check_dir"
    /\ pc' = "ls_pushd"
    /\ UNCHANGED <<hostv, loadv, racev, op, inp, ret, exc, entry_cwd, work, dirv, filev, procv>>
    /\ UNCHANGED trace

\* if lib_dir and not path.exists(lib_dir): raise ImportError
LsCheckDir ==
    /\ op = "load_shared_library" /\ pc = "ls_check_dir"
    /\ IF ~Falsy(inp.lib_dir) /\ ~Exists(inp.lib_dir)
         THEN pc' = "done" /\ exc' = "ImportError"
         ELSE pc' = "ls_pushd" /\ exc' = exc
    /\ UNCHANGED <<hostv, loadv, racev, op, inp, ret, entry_cwd, work, dirv, filev, procv>>
    /\ UNCHANGED trace

\* with pushd(lib_dir)
LsPushd ==
    /\ op = "load_shared_library" /\ pc = "ls_pushd"
    /\ PushdEnter(inp.lib_dir, "ls_load", "ls_popd")
    /\ UNCHANGED <<hostv, loadv, racev, op, inp, ret, entry_cwd, filev, procv>>
    /\ UNCHANGED trace

\* the args the OSError of the loader comes with
OSErrorArgs == << <<"cannot open shared object file">> >>

\* lib = ctypes.CDLL(dll_path): a handle, a handle without a name, or OSError
LsLoad ==
    /\ op = "load_shared_library" /\ pc = "ls_load"
    /\ \E o \in {"loaded", "loaded_noname", "load_failed"} :
          /\ work' = o
          /\ exc' = IF o = "load_failed" THEN "OSError" ELSE exc
          /\ exc_args' = IF o = "load_failed" THEN OSErrorArgs ELSE exc_args
    /\ n_load' = n_load + 1
    /\ pc' = "ls_popd"
    /\ UNCHANGED <<hostv, racev, op, inp, ret, entry_cwd, dirv, filev, procv>>
    /\ UNCHANGED trace

LsPopd ==
    /\ op = "load_shared_library" /\ pc = "ls_popd"
    /\ PushdExit("ls_after")
    /\ UNCHANGED <<hostv, loadv, racev, op, inp, ret, exc, entry_cwd, work, filev, procv>>
    /\ UNCHANGED trace

\* the handle that is returned
LibHandle == <<"lib">>

\* the messages the except clause adds to the args of the error
LoadMsgs ==
    << <<"ctypes.CDLL(dll_path)", inp.dll_path>>,
       <<"lib_dir", inp.lib_dir>>,
       <<"os.environ", environ>>,
       <<"traceback">> >>

\* an except clause that raises the error again as it came
LsAfterAsItCame ==
    /\ op = "load_shared_library" /\ pc = "ls_after"
    /\ IF exc # "none"
         THEN UNCHANGED <<exc, ret, exc_args>>
         ELSE IF work = "loaded"
           THEN ret' = LibHandle /\ exc' = exc /\ exc_args' = exc_args
           ELSE ret' = ret /\ exc' = "ImportError" /\ exc_args' = exc_args
    /\ pc' = "done"
    /\ UNCHANGED <<hostv, n_load, racev, op, inp, entry_cwd, work, dirv, filev, procv>>
    /\ UNCHANGED trace

\* except OSError: e.args = e.args + msgs; raise e
\* if lib and lib._name: return lib; raise ImportError
LsAfter ==
    /\ op = "load_shared_library" /\ pc = "ls_after"
    /\ IF exc # "none"
         THEN /\ exc_args' = exc_args \o LoadMsgs
              /\ UNCHANGED <<exc, ret>>
         ELSE IF work = "loaded"
           THEN ret' = LibHandle /\ exc' = exc /\ exc_args' = exc_args
           ELSE ret' = ret /\ exc' = "ImportError" /\ exc_args' = exc_args
    /\ pc' = "done"
    /\ UNCHANGED <<hostv, n_load, racev, op, inp, entry_cwd, work, dirv, filev, procv>>
    /\ UNCHANGED trace

\* the caller takes the result, or the exception
Return ==
    /\ pc = "done"
    /\ op' = "idle"
    /\ pc' = "idle"
    /\ inp' = NoInput
    /\ ret' = NoneVal
    /\ exc' = "none"
    /\ entry_cwd' = cwd
    /\ original_cwd' = NoFrame
    /\ work' = "-"
    /\ tmp_dir' = FALSE
    /\ files' = "none"
    /\ sout' = <<>>
    /\ serr' = <<>>
    /\ proc' = NoProc
    /\ child' = "none"
    /\ child_code' = 0
    /\ rc' = 0
    /\ n_chdir' = 0
    /\ n_spawn' = 0
    /\ n_close' = 0
    /\ close_exc' = "none"
    /\ stray' = FALSE
    /\ exc_args' = <<>>
    /\ n_load' = 0
    /\ trace' = <<>>
    /\ UNCHANGED <<hostv, racev, cwd>>

Next ==
    \/ UpdatePathVar
    \/ GetEnv
    \/ PushdCall \/ PdEnter \/ PdBody \/ PdExit
    \/ Execute2Call \/ E2Assert \/ E2Setup \/ E2Open \/ E2Pushd \/ E2Spawn
    \/ E2Communicate \/ E2CommunicateRaises \/ E2Rc \/ E2Popd \/ E2FilesClose
    \/ E2Finally \/ E2After
    \/ CloseCall \/ ClCheck \/ ClStdin \/ ClStdout \/ ClStderr
    \/ ClKill \/ ClKillFails \/ ClKillStray \/ ClWait \/ ClWaitRaises
    \/ ClRet \/ ClRaised
    \/ LoadCall \/ LsCheckDll \/ LsCheckDir \/ LsPushd \/ LsLoad \/ LsPopd \/ LsAfter
    \/ ChildExit
    \/ Return

Spec == Init /\ [][Next]_vars

\* ------------------------------------------- pushd in threads, unserialized
\* Each thread runs one `with pushd(path): ...`; the threads share the process
\* working directory and nothing orders their steps.
mainv == <<hostv, callv, original_cwd, n_chdir, filev, procv, loadv, trace>>

TCall(t) ==
    /\ thr[t].pc = "idle"
    /\ \E d \in {NoneVal, RootDir, LibDir, MissingDir} :
          thr' = [thr EXCEPT ![t].pc = "getcwd", ![t].path = d]
    /\ UNCHANGED <<mainv, cwd, race_trace>>

\* original_cwd = os.getcwd(); if not path: path = original_cwd
TGetcwd(t) ==
    /\ thr[t].pc = "getcwd"
    /\ thr' = [thr EXCEPT ![t].pc = "chdir",
                          ![t].original_cwd = cwd,
                          ![t].path = IF Falsy(thr[t].path) THEN cwd ELSE thr[t].path]
    /\ race_trace' = Append(race_trace, <<t, "enter">>)
    /\ UNCHANGED <<mainv, cwd>>

\* os.chdir(path), which raises for a directory that does not exist
TChdir(t) ==
    /\ thr[t].pc = "chdir"
    /\ IF thr[t].path \in ExistingDirs
         THEN cwd' = thr[t].path /\ thr' = [thr EXCEPT ![t].pc = "body"]
         ELSE cwd' = cwd /\ thr' = [thr EXCEPT ![t].pc = "restore"]
    /\ UNCHANGED <<mainv, race_trace>>

\* the wrapped block ends
TBody(t) ==
    /\ thr[t].pc = "body"
    /\ thr' = [thr EXCEPT ![t].pc = "restore"]
    /\ UNCHANGED <<mainv, cwd, race_trace>>

\* a finally clause that does not switch back
TRestoreStay(t) ==
    /\ thr[t].pc = "restore"
    /\ thr' = [thr EXCEPT ![t].pc = "exited"]
    /\ race_trace' = Append(race_trace, <<t, "exit">>)
    /\ UNCHANGED <<mainv, cwd>>

\* finally: os.chdir(original_cwd)
TRestore(t) ==
    /\ thr[t].pc = "restore"
    /\ cwd' = thr[t].original_cwd
    /\ thr' = [thr EXCEPT ![t].pc = "exited"]
    /\ race_trace' = Append(race_trace, <<t, "exit">>)
    /\ UNCHANGED mainv

NextRace ==
    \E t \in Threads :
        \/ TCall(t)
        \/ TGetcwd(t)
        \/ TChdir(t)
        \/ TBody(t)
        \/ TRestore(t)

SpecRace == Init /\ [][NextRace]_vars

\* ----------------------------------------------------------------- claims
AtExit(o) == op = o /\ pc = "done"

\* C1: an operation that switches the working directory (a pushd scope,
\* execute2, load_shared_library) leaves it, at every exit, equal to the
\* working directory at its entry.
C1_CwdRestoredAtExit ==
    (pc = "done" /\ op \in {"pushd", "execute2", "load_shared_library"})
        => cwd = entry_cwd

\* execute2 has switched to the library directory, the wait has raised, and
\* the call has ended
C1_Witness ==
    /\ AtExit("execute2")
    /\ inp.lib_dir = LibDir /\ entry_cwd = RootDir
    /\ work = "wait_raised"
    /\ n_chdir = 2

\* C2: when execute2 returns or raises, every process it spawned has exited
\* and has been reaped.
C2_NoProcessLeftAtExit ==
    AtExit("execute2") => child \in {"none", "reaped"}

\* C3 as stated: close runs exactly once per execute2 invocation, whichever
\* way the invocation ends.
C3_CloseOncePerInvocation ==
    AtExit("execute2") => n_close = 1

\* C3 as amended: close runs exactly once per invocation that passes the
\* check of the executable path, never twice, and not at all in an
\* invocation that the check rejects.
C3_CloseOnceWhenGuarded ==
    /\ n_close <= 1
    /\ AtExit("execute2") => n_close = (IF Falsy(inp.cmd_loc) THEN 0 ELSE 1)

\* the spawn has raised, there is no handle, and close has run once
C3_Witness ==
    /\ AtExit("execute2")
    /\ work = "spawn_failed"
    /\ ~proc.present
    /\ n_close = 1

\* C4: close never raises to its caller, so that the exception (or none)
\* pending when execute2 calls close is the one execute2 ends with.
C4_CloseNeverRaises ==
    /\ pc # "cl_raised"
    /\ (AtExit("execute2") /\ n_close = 1) => exc = close_exc

\* C5: when the spawn fails, execute2 returns a result whose exit code is
\* 100, and there is no handle and no process.
C5_SpawnFailureReturnsSentinel ==
    (AtExit("execute2") /\ work = "spawn_failed")
        => /\ ~proc.present /\ child = "none"
           /\ exc = "none"
           /\ ret[1] = RcDefault

\* C6: execute2 with an empty or absent executable path fails at once with
\* the assertion, before any other effect: no temporary directory, no
\* backing file, no directory switch, no process, no cleanup.
C6_EmptyCmdFailsFirst ==
    (op = "execute2" /\ Falsy(inp.cmd_loc) /\ pc # "e2_assert")
        => /\ pc = "done"
           /\ exc = "AssertionError"
           /\ ret = NoneVal
           /\ ~tmp_dir /\ files = "none"
           /\ n_chdir = 0 /\ cwd = entry_cwd /\ original_cwd = NoFrame
           /\ n_spawn = 0 /\ child = "none" /\ ~proc.present
           /\ n_close = 0

\* execute2('') has ended with the assertion
C6_Witness ==
    /\ AtExit("execute2")
    /\ inp.cmd_loc = <<>>
    /\ exc = "AssertionError"

\* the result execute2 returns for exit code c and the content of the files
ResultFor(c) ==
    IF inp.to_files THEN <<c, SopLoc, SepLoc>>
    ELSE <<c, Payload(sout), Payload(serr)>>

UpvDone == AtExit("update_path_var")

\* the separator-delimited segments of a PATH-like value
Segments(v) == Split(v, PathSep(on_posix))

\* C8: update_path_var with an absent existing value (None or '') and a
\* non-empty new path returns exactly the new path.
C8_AbsentExistingGivesNew ==
    (UpvDone /\ Falsy(inp.existing_path_var) /\ ~Falsy(inp.new_path))
        => ret = inp.new_path

\* C9: when the new path is already a segment of the existing value,
\* update_path_var returns the existing value unchanged.
C9_PresentSegmentUnchanged ==
    (UpvDone /\ inp.existing_path_var # NoneVal /\ inp.new_path # NoneVal
        /\ InList(inp.new_path, Segments(inp.existing_path_var)))
        => ret = inp.existing_path_var

\* the new path is the last of two segments of the existing value
C9_Witness ==
    /\ UpvDone
    /\ on_posix
    /\ inp.existing_path_var = <<"a", ":", "b">>
    /\ inp.new_path = <<"b">>

\* C10 as stated: for every non-empty new path that is not a segment of the
\* existing value, the result has the new path as its first segment, then
\* the segments of the existing value in their order.
C10_NewPathFirstSegment ==
    (UpvDone /\ inp.existing_path_var # NoneVal /\ ~Falsy(inp.new_path)
        /\ ~InList(inp.new_path, Segments(inp.existing_path_var)))
        => Segments(ret) = <<inp.new_path>> \o Segments(inp.existing_path_var)

\* C10 as amended: the same, for a new path that holds no separator.
C10_NewSegmentFirst ==
    (UpvDone /\ inp.existing_path_var # NoneVal /\ ~Falsy(inp.new_path)
        /\ ~InList(PathSep(on_posix), inp.new_path)
        /\ ~InList(inp.new_path, Segments(inp.existing_path_var)))
        => Segments(ret) = <<inp.new_path>> \o Segments(inp.existing_path_var)

\* a new path is added in front of an existing value of two segments
C10_Witness ==
    /\ UpvDone
    /\ on_posix
    /\ inp.existing_path_var = <<"a", ":", ";">>
    /\ inp.new_path = <<"b">>
    /\ ret = <<"b", ":", "a", ":", ";">>

\* C11: on POSIX and with a library directory, get_env returns a map in
\* which every base key other than the two library variables keeps its base
\* value, both library variables are set, and there is no other key.
C11_BaseKeysKept ==
    (AtExit("get_env") /\ on_posix /\ ~Falsy(inp.lib_dir))
        => /\ DOMAIN ret = DOMAIN inp.base_vars \cup {LD_LIBRARY_PATH, DYLD_LIBRARY_PATH}
           /\ \A k \in DOMAIN inp.base_vars \ {LD_LIBRARY_PATH, DYLD_LIBRARY_PATH} :
                 ret[k] = inp.base_vars[k]

\* a base map with an unrelated key and one of the library variables
C11_Witness ==
    /\ AtExit("get_env")
    /\ on_posix
    /\ inp.lib_dir = LibDir
    /\ DOMAIN inp.base_vars = {"K", LD_LIBRARY_PATH}
    /\ inp.base_vars["K"] = <<"b", ":", "a">>

\* C12: on POSIX and with a library directory, the values of the two library
\* variables are update_path_var(the process-level value, the library
\* directory); a value of the base map for either key does not contribute.
C12_LibraryVarsFromEnviron ==
    (AtExit("get_env") /\ on_posix /\ ~Falsy(inp.lib_dir))
        => \A k \in {LD_LIBRARY_PATH, DYLD_LIBRARY_PATH} :
              ret[k] = update_path_var(EnvironGet(environ, k), inp.lib_dir, TRUE)

\* the base map sets LD_LIBRARY_PATH to another value than the process has
C12_Witness ==
    /\ AtExit("get_env")
    /\ on_posix
    /\ inp.lib_dir = LibDir
    /\ LD_LIBRARY_PATH \in DOMAIN inp.base_vars
    /\ LD_LIBRARY_PATH \in DOMAIN environ
    /\ inp.base_vars[LD_LIBRARY_PATH] # environ[LD_LIBRARY_PATH]
    /\ ret[LD_LIBRARY_PATH] = <<"b">>

\* the arguments load_shared_library rejects
InvalidLoad ==
    \/ Falsy(inp.dll_path) \/ ~Exists(inp.dll_path)
    \/ ~Falsy(inp.lib_dir) /\ ~Exists(inp.lib_dir)

\* C13: load_shared_library fails with a load error, without any directory
\* switch and without any load attempt, whenever the library path is absent
\* or does not exist, or a library directory is given and does not exist.
C13_InvalidLoadFailsFirst ==
    (op = "load_shared_library" /\ InvalidLoad)
        => /\ pc \in {"ls_check_dll", "ls_check_dir", "done"}
           /\ n_chdir = 0 /\ cwd = entry_cwd /\ original_cwd = NoFrame
           /\ n_load = 0 /\ work = "-"
           /\ pc = "done" => (exc = "ImportError" /\ ret = NoneVal)

\* an existing library with a library directory that does not exist
C13_Witness ==
    /\ AtExit("load_shared_library")
    /\ inp.dll_path = DllLoc
    /\ inp.lib_dir = MissingDir
    /\ exc = "ImportError"

\* C14: when the load of a validated library fails, the same error is raised
\* again, its args kept and followed by the path, the library directory and
\* a snapshot of the environment; the load is tried once, no handle returned.
C14_LoadErrorEnriched ==
    (AtExit("load_shared_library") /\ work = "load_failed")
        => /\ exc = "OSError"
           /\ n_load = 1
           /\ ret = NoneVal
           /\ Len(exc_args) >= Len(OSErrorArgs) + 3
           /\ SubSeq(exc_args, 1, Len(OSErrorArgs)) = OSErrorArgs
           /\ exc_args[Len(OSErrorArgs) + 1] = <<"ctypes.CDLL(dll_path)", inp.dll_path>>
           /\ exc_args[Len(OSErrorArgs) + 2] = <<"lib_dir", inp.lib_dir>>
           /\ exc_args[Len(OSErrorArgs) + 3] = <<"os.environ", environ>>

\* the load of an existing library from the library directory has failed
C14_Witness ==
    /\ AtExit("load_shared_library")
    /\ work = "load_failed"
    /\ inp.dll_path = DllLoc
    /\ inp.lib_dir = LibDir
    /\ DOMAIN environ # {}

\* C15: with inline output, each payload is the content of its backing file
\* with only trailing whitespace removed (and made ASCII).
C15_OnlyTrailingWhitespaceRemoved ==
    (AtExit("execute2") /\ exc = "none" /\ ~inp.to_files)
        => /\ ret[2] = toascii(RStrip(sout))
           /\ ret[3] = toascii(RStrip(serr))

\* the steps of close that are recorded in the trace
IsCloseStep(e) == e \in {"stdin", "stdout", "stderr", "kill", "reap"}
CloseSteps == SelectSeq(trace, IsCloseStep)

\* C16: for a present handle, close closes stdin, stdout and stderr, then
\* attempts the kill, then waits for the child, in this order and whatever
\* the pipe closes and the kill did; when it returns the child is reaped.
C16_CloseOrder ==
    /\ (pc \in {"cl_ret", "cl_raised"} /\ proc.present)
          => CloseSteps = <<"stdin", "stdout", "stderr", "kill", "reap">>
    /\ (pc = "cl_ret" /\ proc.present) => child = "reaped"

\* close returns for a handle with a pipe whose kill could not be sent
C16_Witness ==
    /\ op = "close" /\ pc = "cl_ret"
    /\ ~on_posix
    /\ proc.present
    /\ proc.pipes["stdin"] = "closed"
    /\ child = "reaped"

InTrace(e) == \E i \in 1..Len(trace) : trace[i] = e
\* e comes before f in the trace, when f is in it
Before(e, f) ==
    \A j \in 1..Len(trace) : trace[j] = f => \E i \in 1..(j - 1) : trace[i] = e

\* the directory execute2 spawns in
SpawnDir == IF Falsy(inp.lib_dir) THEN entry_cwd ELSE inp.lib_dir

\* C17: in execute2 the spawn and the wait happen inside the directory scope
\* and with both backing files open; the directory is restored and the files
\* are closed only after the wait has completed or an error was raised; the
\* files are read only after that and after the cleanup.
C17_SpawnAndWaitInsideScope ==
    op = "execute2" =>
        /\ pc \in {"e2_spawn", "e2_comm", "e2_rc"}
              => /\ files = "open"
                 /\ original_cwd = entry_cwd
                 /\ cwd = SpawnDir
        /\ Before("pushd_enter", "spawn") /\ Before("pushd_enter", "spawn_raised")
        /\ Before("spawn", "wait") /\ Before("spawn", "wait_raised")
        /\ InTrace("pushd_exit") => (InTrace("wait") \/ exc # "none")
        /\ Before("pushd_exit", "files_closed")
        /\ Before("files_closed", "close")
        /\ Before("close", "read") /\ Before("reap", "read")

\* execute2 has run a child in the library directory and has read the files
C17_Witness ==
    /\ AtExit("execute2")
    /\ inp.lib_dir = LibDir /\ entry_cwd = RootDir
    /\ InTrace("wait") /\ InTrace("read")

\* C19: close signals only a process that has not been reaped: in every
\* execute2 run the pid given to os.kill still belongs to the child.
C19_KillOnlyOwnChild ==
    /\ ~stray
    /\ (op = "execute2" /\ pc = "cl_kill" /\ on_posix) => child \in {"running", "zombie"}

\* C20 as stated: for every existing value and every non-empty new path,
\* adding the new path a second time changes nothing.
C20_Idempotent ==
    (UpvDone /\ ~Falsy(inp.new_path))
        => update_path_var(ret, inp.new_path, on_posix) = ret

\* C20 as amended: the same, for a new path that holds no separator.
C20_IdempotentForSegment ==
    (UpvDone /\ ~Falsy(inp.new_path) /\ ~InList(PathSep(on_posix), inp.new_path))
        => update_path_var(ret, inp.new_path, on_posix) = ret

\* a new path added to an absent existing value
C20_Witness ==
    /\ UpvDone
    /\ on_posix
    /\ inp.existing_path_var = NoneVal
    /\ inp.new_path = <<"b">>
    /\ ret = <<"b", ":">>

AllExited == \A t \in Threads : thr[t].pc = "exited"

\* the scopes did not overlap: one had exited before the other entered
Serialized ==
    \E t, u \in Threads :
        t # u /\ race_trace = << <<t, "enter">>, <<t, "exit">>, <<u, "enter">>, <<u, "exit">> >>

\* C18: two unserialized pushd scopes race. With both scopes exited the
\* working directory is the one that the scope that exited last had found
\* at its entry: the starting directory when the scopes were serialized, and
\* (the witness) another one when the second scope entered while the first
\* was active and the first exited first.
C18_LastRestoreWins ==
    AllExited =>
        /\ cwd = thr[race_trace[Len(race_trace)][1]].original_cwd
        /\ Serialized => cwd = entry_cwd

\* thread 2 entered while the scope of thread 1 was active, thread 1 exited
\* first, and the working directory is not the one before either scope
C18_Witness ==
    /\ AllExited
    /\ race_trace = << <<1, "enter">>, <<2, "enter">>, <<1, "exit">>, <<2, "exit">> >>
    /\ cwd # entry_cwd
====
